---- MODULE Spec2Model ----
(***************************************************************************)
(* Model of the Search Ads 360 custom connectors:                          *)
(*   - the API gateway  make_sa360_request  and its three callers          *)
(*     (sa360-custom-keywords/search_ads_360.py),                          *)
(*   - the hierarchical sync driver  update  of sa360-custom-columns and   *)
(*     of sa360-custom-keywords (connector.py of each).                    *)
(***************************************************************************)
EXTENDS Integers, Sequences, FiniteSets, TLC

None == "None"

(***************************************************************************)
(* Part 1. The gateway.                                                    *)
(***************************************************************************)
VARIABLES
  gpc,                 \* position inside make_sa360_request / its caller
  caller,              \* the function that called make_sa360_request
  auth_retried,        \* local of make_sa360_request
  rate_limit_retries,  \* local of make_sa360_request
  response,            \* the last response: [status, json]
  authorization,       \* session.headers["Authorization"]: the token's number
  authAtCall,          \* the header when the call began (history)
  statuses,            \* the statuses received by this call, in order (history)
  refreshes,           \* get_access_token calls made by this call (history)
  sleeps,              \* time.sleep delays of this call, in order (history)
  outcome,             \* how make_sa360_request ended
  callerOutcome,       \* how the caller ended
  calls                \* calls made on this session so far

gvars == <<gpc, caller, auth_retried, rate_limit_retries, response, authorization,
           authAtCall, statuses, refreshes, sleeps, outcome, callerOutcome, calls>>

\* The state of the sync drivers (Part 2).
VARIABLES
  connector,              \* which connector.py runs: "columns" or "keywords"
  config,                 \* the sub-manager ids as configured (before sorting)
  clients,                \* the API: sub-manager -> customer_client ids, as returned
  numColumns,             \* the API: sub-manager -> number of custom columns
  apiRows,                \* the API: account -> metric rows, in delivery order
  today,                  \* datetime.now().date()
  state,                  \* the state the host persists (the last checkpoint)
  pc,                     \* position inside update()
  loaded,                 \* the state dict update() was called with
  submanager_accounts,    \* locals of update()
  submanager_cursor,
  managed_account_cursor,
  column_data_cursor,
  iterative_sync_cursor,
  si,                     \* index of `account` in submanager_accounts
  managed_accounts,
  mi,                     \* index of `a` in managed_accounts
  results,                \* the rows (columns) or items (keywords) being iterated
  ri,                     \* index into results (keywords: idx + 1)
  frontier,               \* _start_date of the columns connector
  emitted,                \* metric records upserted since the traversal began (history)
  window,                 \* [lo, hi]: the query window of this traversal (history)
  visited,                \* the loop heads this run has passed: [sub, man] (history)
  lastEvent,              \* the last thing the run did (history)
  lastDate,               \* the date of the last metric row upserted by this query (history)
  runEnd                  \* how the last run ended (history)

\* The state of one metric query (Part 3): get_custom_column_data and
\* generate_custom_column_rows over it.
VARIABLES
  serverPages,      \* the result set of the query, as the pages the server cuts it in
  ppc,              \* position inside get_custom_column_data / generate_custom_column_rows
  next_page_token,  \* local of get_custom_column_data
  sentTokens,       \* the pageToken of every request sent, in order (history)
  yielded,          \* the pages get_custom_column_data has yielded, in order (history)
  pageItems         \* per yielded page, the dicts generate_custom_column_rows yielded

pvars == <<serverPages, ppc, next_page_token, sentTokens, yielded, pageItems>>

drvars == <<connector, config, clients, numColumns, apiRows, today, state, pc, loaded,
            submanager_accounts, submanager_cursor, managed_account_cursor,
            column_data_cursor, iterative_sync_cursor, si, managed_accounts, mi,
            results, ri, frontier, emitted, window, visited, lastEvent, lastDate,
            runEnd>>

dvars == <<drvars, pvars>>

apivars == <<connector, config, clients, numColumns, apiRows, pvars>>

vars == <<gvars, dvars>>

\* Calls made on one session in one behaviour.
MaxCalls == 2

\* rate_limit_retries = 5
RateLimitRetries == 5

\* The status codes a response may carry.
Statuses == {200, 401, 429, 500}

Callers == {"get_customer_clients", "get_custom_columns", "get_custom_column_data"}

NoResponse == [status |-> 0, json |-> TRUE]

\* response.raise_for_status() raises for 4xx and 5xx.
RaisesForStatus(r) == r.status >= 400

\* "response.status_code == 401 and not auth_retried"
MutNeedsRefresh(r, retried) == r.status = 401

NeedsRefresh(r, retried) == r.status = 401 /\ ~retried

\* One retry more than the budget.
MutNeedsBackoff(r, retries) == r.status = 429 /\ retries > -1

\* "response.status_code == 429 and rate_limit_retries > 0"
NeedsBackoff(r, retries) == r.status = 429 /\ retries > 0

\* attempt = 6 - rate_limit_retries; delay = 2 ** (attempt - 1)
MutDelay(retries) == 2 ^ (6 - retries)

Delay(retries) == 2 ^ ((6 - retries) - 1)

GInit ==
  /\ gpc = "idle"
  /\ caller = None
  /\ auth_retried = FALSE
  /\ rate_limit_retries = RateLimitRetries
  /\ response = NoResponse
  /\ authorization = 0
  /\ authAtCall = 0
  /\ statuses = <<>>
  /\ refreshes = 0
  /\ sleeps = <<>>
  /\ outcome = "none"
  /\ callerOutcome = "none"
  /\ calls = 0

\* A caller enters make_sa360_request: auth_retried = False, rate_limit_retries = 5.
MakeRequest ==
  /\ UNCHANGED dvars
  /\ gpc = "idle"
  /\ calls < MaxCalls
  /\ \E c \in Callers : caller' = c
  /\ auth_retried' = FALSE
  /\ rate_limit_retries' = RateLimitRetries
  /\ response' = NoResponse
  /\ authAtCall' = authorization
  /\ statuses' = <<>>
  /\ refreshes' = 0
  /\ sleeps' = <<>>
  /\ outcome' = "none"
  /\ callerOutcome' = "none"
  /\ calls' = calls + 1
  /\ gpc' = "request"
  /\ UNCHANGED authorization

\* response = session.request(method, url, **kwargs): the server answers with any
\* status; an error body may or may not be JSON.
SessionRequest ==
  /\ UNCHANGED dvars
  /\ gpc = "request"
  /\ \E st \in Statuses, js \in BOOLEAN :
       /\ (st = 200 => js)
       /\ response' = [status |-> st, json |-> js]
       /\ statuses' = Append(statuses, st)
  /\ gpc' = "response"
  /\ UNCHANGED <<caller, auth_retried, rate_limit_retries, authorization, authAtCall,
                 refreshes, sleeps, outcome, callerOutcome, calls>>

\* The 401 branch: get_access_token, which raises when the token endpoint fails,
\* then the header update, auth_retried = True, continue.
RefreshToken ==
  /\ UNCHANGED dvars
  /\ gpc = "response"
  /\ NeedsRefresh(response, auth_retried)
  /\ refreshes' = refreshes + 1
  /\ \/ /\ authorization' = authorization + 1
        /\ auth_retried' = TRUE
        /\ gpc' = "request"
        /\ UNCHANGED outcome
     \/ /\ outcome' = "token_error"
        /\ gpc' = "done"
        /\ UNCHANGED <<authorization, auth_retried>>
  /\ UNCHANGED <<caller, rate_limit_retries, response, authAtCall, statuses, sleeps,
                 callerOutcome, calls>>

\* The 429 branch: sleep 2 ** (attempt - 1), one retry less, continue.
Backoff ==
  /\ UNCHANGED dvars
  /\ gpc = "response"
  /\ ~NeedsRefresh(response, auth_retried)
  /\ NeedsBackoff(response, rate_limit_retries)
  /\ sleeps' = Append(sleeps, Delay(rate_limit_retries))
  /\ rate_limit_retries' = rate_limit_retries - 1
  /\ gpc' = "request"
  /\ UNCHANGED <<caller, auth_retried, response, authorization, authAtCall, statuses,
                 refreshes, outcome, callerOutcome, calls>>

\* try: response.raise_for_status()  except: print(...); print(response.json())
\* return response.  The bare except swallows the HTTP error; only a body that is
\* not JSON makes the handler itself raise.
ReturnResponse ==
  /\ UNCHANGED dvars
  /\ gpc = "response"
  /\ ~NeedsRefresh(response, auth_retried)
  /\ ~NeedsBackoff(response, rate_limit_retries)
  /\ IF RaisesForStatus(response) /\ ~response.json
       THEN outcome' = "json_error" /\ gpc' = "done"
       ELSE outcome' = "returned" /\ gpc' = "caller"
  /\ UNCHANGED <<caller, auth_retried, rate_limit_retries, response, authorization,
                 authAtCall, statuses, refreshes, sleeps, callerOutcome, calls>>

\* get_customer_clients after the call: response.json(), the ids of "results",
\* [None] when there are none. No raise_for_status: an error body has no
\* "results" and is read as an empty list.
GetCustomerClientsAfter ==
  /\ UNCHANGED dvars
  /\ gpc = "caller"
  /\ caller = "get_customer_clients"
  /\ IF RaisesForStatus(response)
       THEN callerOutcome' = "[None]"
       ELSE callerOutcome' \in {"results", "[None]"}
  /\ gpc' = "done"
  /\ UNCHANGED <<caller, auth_retried, rate_limit_retries, response, authorization,
                 authAtCall, statuses, refreshes, sleeps, outcome, calls>>

\* get_custom_columns after the call: response.raise_for_status(), then the
\* "customColumns" of the body.
GetCustomColumnsAfter ==
  /\ UNCHANGED dvars
  /\ gpc = "caller"
  /\ caller = "get_custom_columns"
  /\ callerOutcome' = IF RaisesForStatus(response) THEN "HTTPError" ELSE "customColumns"
  /\ gpc' = "done"
  /\ UNCHANGED <<caller, auth_retried, rate_limit_retries, response, authorization,
                 authAtCall, statuses, refreshes, sleeps, outcome, calls>>

\* get_custom_column_data after the call: response.raise_for_status(), then the
\* page is yielded.
GetCustomColumnDataAfter ==
  /\ UNCHANGED dvars
  /\ gpc = "caller"
  /\ caller = "get_custom_column_data"
  /\ callerOutcome' = IF RaisesForStatus(response) THEN "HTTPError" ELSE "page"
  /\ gpc' = "done"
  /\ UNCHANGED <<caller, auth_retried, rate_limit_retries, response, authorization,
                 authAtCall, statuses, refreshes, sleeps, outcome, calls>>

\* The call is over; the session (and its header) is used for the next one.
NextCall ==
  /\ UNCHANGED dvars
  /\ gpc = "done"
  /\ gpc' = "idle"
  /\ UNCHANGED <<caller, auth_retried, rate_limit_retries, response, authorization,
                 authAtCall, statuses, refreshes, sleeps, outcome, callerOutcome, calls>>

GNext ==
  \/ MakeRequest
  \/ SessionRequest
  \/ RefreshToken
  \/ Backoff
  \/ ReturnResponse
  \/ GetCustomerClientsAfter
  \/ GetCustomColumnsAfter
  \/ GetCustomColumnDataAfter
  \/ NextCall


(***************************************************************************)
(* Part 2. The sync drivers: update() of sa360-custom-columns and of        *)
(* sa360-custom-keywords.                                                  *)
(*                                                                         *)
(* An account id is a string of digits, modelled as a sequence of digits;  *)
(* a date is a day number, day 0 being 2023-01-01.  A key that is absent   *)
(* from the state dict (or holds None) is NoId for an id and NoDate for a  *)
(* date.                                                                   *)
(***************************************************************************)
NoId == <<>>
NoDate == -1

\* The last day of the model's calendar; runs happen on day 0 and on that day.
MaxDay == 6

\* '2023-01-01', the start date when date_cursor is None.
DefaultStart == 0

\* int(x) of a string of digits.
RECURSIVE int(_)
int(x) ==
  IF Len(x) = 0 THEN 0
  ELSE 10 * int(SubSeq(x, 1, Len(x) - 1)) + x[Len(x)]

\* A string comparison key in place of int: the first character.
MutSortKey(x) == x[1]

\* key=lambda x: int(x)
SortKey(x) == int(x)

\* list.sort(key=...) is stable: an element goes after those whose key is <= its own.
RECURSIVE InsertByKey(_, _)
InsertByKey(x, sorted) ==
  IF sorted = <<>> THEN <<x>>
  ELSE IF SortKey(Head(sorted)) <= SortKey(x)
         THEN <<Head(sorted)>> \o InsertByKey(x, Tail(sorted))
         ELSE <<x>> \o sorted

RECURSIVE SortByInt(_)
SortByInt(ids) ==
  IF ids = <<>> THEN <<>>
  ELSE InsertByKey(ids[Len(ids)], SortByInt(SubSeq(ids, 1, Len(ids) - 1)))

\* get_date_diff(date_str_1, date_str_2) = (d2 - d1).days
get_date_diff(d1, d2) == d2 - d1

Range(f) == {f[i] : i \in DOMAIN f}

\* start_date = '2023-01-01' if date_cursor is None else date_cursor;
\* WHERE segments.date BETWEEN start_date AND today.
InWindow(date, date_cursor) ==
  /\ date >= (IF date_cursor = NoDate THEN DefaultStart ELSE date_cursor)
  /\ date <= today

\* The rows the search endpoint returns for a customer, in delivery order.
QueryRows(customer_id, date_cursor) ==
  SelectSeq(apiRows[customer_id], LAMBDA r : InWindow(r.date, date_cursor))

\* start_date = column_data_cursor if iterative_sync_cursor is None else iterative_sync_cursor
MutStartDate(cdc, isc) == IF cdc # NoDate THEN cdc ELSE isc

StartDate(cdc, isc) == IF isc = NoDate THEN cdc ELSE isc

EmptyState ==
  [submanager_cursor |-> NoId, managed_account_cursor |-> NoId,
   iterative_sync_cursor |-> NoDate, column_data_cursor |-> NoDate]

\* A checkpoint that moves iterative_sync_cursor to the date cursor.
MutCheckpoint(sub, man, isc, cdc) ==
  [submanager_cursor |-> sub, managed_account_cursor |-> man,
   iterative_sync_cursor |-> cdc, column_data_cursor |-> cdc]

\* The dict of a non-terminal checkpoint.
Checkpoint(sub, man, isc, cdc) ==
  [submanager_cursor |-> sub, managed_account_cursor |-> man,
   iterative_sync_cursor |-> isc, column_data_cursor |-> cdc]

\* {"iterative_sync_cursor": datetime.now().date().isoformat()}
TerminalCheckpoint ==
  [submanager_cursor |-> NoId, managed_account_cursor |-> NoId,
   iterative_sync_cursor |-> today, column_data_cursor |-> NoDate]

\* The default is the last sub-manager instead of the first.
MutLoadSubmanagerCursor(st, sorted) ==
  IF st.submanager_cursor = NoId THEN sorted[Len(sorted)] ELSE st.submanager_cursor

\* state.get("submanager_cursor", submanager_accounts[0])
LoadSubmanagerCursor(st, sorted) ==
  IF st.submanager_cursor = NoId THEN sorted[1] ELSE st.submanager_cursor

\* state.get("managed_account_cursor", managed_accounts[0])
LoadManagedCursor(st, sorted) ==
  IF st.managed_account_cursor = NoId THEN sorted[1] ELSE st.managed_account_cursor

account == submanager_accounts[si]
a == managed_accounts[mi]

\* The metric records one result row gives: one per custom column.
RowRecords(customer_id, row, k) ==
  {[customer_id |-> customer_id, date |-> row.date, campaign_id |-> row.campaign,
    column |-> c] : c \in 1..k}

\* The locals of a run that is over.
IdleLocals ==
  /\ loaded' = EmptyState
  /\ submanager_accounts' = <<>>
  /\ submanager_cursor' = NoId
  /\ managed_account_cursor' = NoId
  /\ column_data_cursor' = NoDate
  /\ iterative_sync_cursor' = NoDate
  /\ si' = 0
  /\ managed_accounts' = <<>>
  /\ mi' = 0
  /\ results' = <<>>
  /\ ri' = 0
  /\ frontier' = NoDate
  /\ visited' = {}
  /\ lastDate' = NoDate

\* Leaving managed_accounts[mi]: the next managed account, else the next
\* sub-manager, else the end of both loops.
LeaveAccount ==
  /\ results' = <<>>
  /\ ri' = 0
  /\ frontier' = NoDate
  /\ IF mi < Len(managed_accounts)
       THEN /\ mi' = mi + 1
            /\ pc' = "man"
            /\ UNCHANGED <<si, managed_accounts>>
       ELSE /\ mi' = 0
            /\ managed_accounts' = <<>>
            /\ IF si < Len(submanager_accounts)
                 THEN si' = si + 1 /\ pc' = "sub"
                 ELSE si' = si /\ pc' = "final"

\* A break in place of the continue: the loop is left.
MutSkipSubmanager == si' = si /\ pc' = "final"

\* Leaving submanager_accounts[si] without entering it (continue).
SkipSubmanager ==
  IF si < Len(submanager_accounts)
    THEN si' = si + 1 /\ pc' = "sub"
    ELSE si' = si /\ pc' = "final"

\* update() is called with the persisted state: the cursors are read, the
\* sub-manager list is sorted.  A traversal that starts without a
\* submanager_cursor is a new one: its window is remembered.
Start ==
  /\ pc = "idle"
  /\ loaded' = state
  /\ column_data_cursor' = state.column_data_cursor
  /\ iterative_sync_cursor' = state.iterative_sync_cursor
  /\ submanager_accounts' = SortByInt(config)
  /\ submanager_cursor' = LoadSubmanagerCursor(state, SortByInt(config))
  /\ managed_account_cursor' = state.managed_account_cursor
  /\ si' = 1
  /\ pc' = "sub"
  /\ visited' = {}
  /\ lastEvent' = "start"
  /\ runEnd' = "running"
  /\ IF state.submanager_cursor = NoId
       THEN /\ emitted' = {}
            /\ window' = [lo |-> StartDate(state.column_data_cursor,
                                           state.iterative_sync_cursor),
                          hi |-> today]
       ELSE UNCHANGED <<emitted, window>>
  /\ UNCHANGED <<managed_accounts, mi, results, ri, frontier, state, today>>
  /\ UNCHANGED <<apivars, gvars>>
  /\ UNCHANGED lastDate

(* ------------------------- sa360-custom-columns ------------------------ *)

\* The top of the sub-manager loop: the checkpoint for `account` (without the
\* managed_account_cursor key while that local is None), then the skip test.
ColumnsSubmanager ==
  /\ connector = "columns"
  /\ pc = "sub"
  /\ state' = Checkpoint(account, managed_account_cursor, iterative_sync_cursor,
                         column_data_cursor)
  /\ lastEvent' = "checkpoint"
  /\ IF int(account) < int(submanager_cursor)
       THEN SkipSubmanager
       ELSE pc' = "fetch" /\ si' = si
  /\ UNCHANGED <<loaded, submanager_accounts, submanager_cursor, managed_account_cursor,
                 column_data_cursor, iterative_sync_cursor, managed_accounts, mi,
                 results, ri, frontier, emitted, window, runEnd, today>>
  /\ visited' = visited \cup {[sub |-> account, man |-> NoId]}
  /\ UNCHANGED <<apivars, gvars>>
  /\ UNCHANGED lastDate

\* get_custom_columns, get_customer_clients, the sort and the managed-account
\* cursor.  An empty client list comes back as [None], and int(None) in the sort
\* key raises: see FetchFails.
ColumnsFetch ==
  /\ connector = "columns"
  /\ pc = "fetch"
  /\ clients[account] # <<>>
  /\ managed_accounts' = SortByInt(clients[account])
  /\ managed_account_cursor' = LoadManagedCursor(loaded, SortByInt(clients[account]))
  /\ mi' = 1
  /\ pc' = "man"
  /\ lastEvent' = "fetch"
  /\ UNCHANGED <<loaded, submanager_accounts, submanager_cursor, column_data_cursor,
                 iterative_sync_cursor, si, results, ri, frontier, emitted, window,
                 runEnd, state, today>>
  /\ UNCHANGED <<visited, lastDate>>
  /\ UNCHANGED <<apivars, gvars>>

\* The top of the managed-account loop: the checkpoint for `a`, the skip test,
\* the custom_columns upserts, and the end of the body when there are no columns.
ColumnsManaged ==
  /\ connector = "columns"
  /\ pc = "man"
  /\ state' = Checkpoint(account, a, iterative_sync_cursor, column_data_cursor)
  /\ lastEvent' = "checkpoint"
  /\ IF int(a) < int(managed_account_cursor)
       THEN LeaveAccount
       ELSE /\ pc' = "columns"
            /\ UNCHANGED <<si, managed_accounts, mi, results, ri, frontier>>
  /\ UNCHANGED <<loaded, submanager_accounts, submanager_cursor, managed_account_cursor,
                 column_data_cursor, iterative_sync_cursor, emitted, window, runEnd,
                 today>>
  /\ visited' = visited \cup {[sub |-> account, man |-> a]}
  /\ UNCHANGED <<apivars, gvars>>
  /\ UNCHANGED lastDate

\* for column in columns: yield op.upsert(table="custom_columns", ...); then
\* "if len(columns) > 0".
ColumnsUpsertColumns ==
  /\ connector = "columns"
  /\ pc = "columns"
  /\ IF numColumns[account] > 0
       THEN /\ lastEvent' = "upsert_column"
            /\ pc' = "query"
            /\ UNCHANGED <<si, managed_accounts, mi, results, ri, frontier>>
       ELSE /\ UNCHANGED lastEvent
            /\ LeaveAccount
  /\ UNCHANGED <<loaded, submanager_accounts, submanager_cursor, managed_account_cursor,
                 column_data_cursor, iterative_sync_cursor, emitted, window, runEnd,
                 state, today>>
  /\ UNCHANGED <<visited, lastDate>>
  /\ UNCHANGED <<apivars, gvars>>

\* start_date, get_custom_column_data, results = column_data[0]["results"],
\* _start_date = None.
ColumnsQuery ==
  /\ connector = "columns"
  /\ pc = "query"
  /\ LET rows == QueryRows(a, StartDate(column_data_cursor, iterative_sync_cursor))
     IN IF rows = <<>>
          THEN LeaveAccount
          ELSE /\ results' = rows
               /\ ri' = 1
               /\ frontier' = NoDate
               /\ pc' = "row"
               /\ UNCHANGED <<si, managed_accounts, mi>>
  /\ lastEvent' = "query"
  /\ UNCHANGED <<loaded, submanager_accounts, submanager_cursor, managed_account_cursor,
                 column_data_cursor, iterative_sync_cursor, emitted, window, runEnd,
                 state, today>>
  /\ UNCHANGED visited
  /\ lastDate' = NoDate
  /\ UNCHANGED <<apivars, gvars>>

\* "elif get_date_diff(_start_date, date) > 5"
FrontierDays == 5

\* The frontier moves at 5 days already.
MutFrontierBranch(start, date) ==
  IF start = NoDate THEN "first"
  ELSE IF get_date_diff(start, date) < 0 THEN "drop"
  ELSE IF get_date_diff(start, date) >= FrontierDays THEN "advance"
  ELSE "within"

\* The branch a row takes at the date frontier:
\*   if _start_date is None ... elif diff < 0: continue ... elif diff > 5 ...
FrontierBranch(start, date) ==
  IF start = NoDate THEN "first"
  ELSE IF get_date_diff(start, date) < 0 THEN "drop"
  ELSE IF get_date_diff(start, date) > FrontierDays THEN "advance"
  ELSE "within"

\* One result row meets the date frontier: the first row sets it and is
\* checkpointed, a row before it is dropped, a row more than 5 days after it
\* moves it and is checkpointed, any other row goes on to be emitted.
ColumnsRow ==
  /\ connector = "columns"
  /\ pc = "row"
  /\ LET date == results[ri].date
         branch == FrontierBranch(frontier, date)
     IN CASE branch \in {"first", "advance"} ->
               /\ frontier' = date
               /\ state' = Checkpoint(account, a, iterative_sync_cursor, date)
               /\ lastEvent' = "checkpoint"
               /\ pc' = "emit"
               /\ UNCHANGED <<si, managed_accounts, mi, results, ri>>
          [] branch = "drop" ->
               /\ lastEvent' = "drop"
               /\ UNCHANGED state
               /\ IF ri < Len(results)
                    THEN /\ ri' = ri + 1
                         /\ UNCHANGED <<pc, si, managed_accounts, mi, results, frontier>>
                    ELSE LeaveAccount
          [] branch = "within" ->
               /\ pc' = "emit"
               /\ lastEvent' = "pass"
               /\ UNCHANGED <<state, si, managed_accounts, mi, results, ri, frontier>>
  /\ UNCHANGED <<loaded, submanager_accounts, submanager_cursor, managed_account_cursor,
                 column_data_cursor, iterative_sync_cursor, emitted, window, runEnd,
                 today>>
  /\ UNCHANGED <<visited, lastDate>>
  /\ UNCHANGED <<apivars, gvars>>

\* for column_value, column in zip(custom_columns, column_headers):
\*     yield op.upsert(table="custom_column_values", ...)
ColumnsEmit ==
  /\ connector = "columns"
  /\ pc = "emit"
  /\ emitted' = emitted \cup RowRecords(a, results[ri], numColumns[account])
  /\ lastEvent' = "upsert"
  /\ IF ri < Len(results)
       THEN /\ ri' = ri + 1
            /\ pc' = "row"
            /\ UNCHANGED <<si, managed_accounts, mi, results, frontier>>
       ELSE LeaveAccount
  /\ UNCHANGED <<loaded, submanager_accounts, submanager_cursor, managed_account_cursor,
                 column_data_cursor, iterative_sync_cursor, window, runEnd, state, today>>
  /\ UNCHANGED visited
  /\ lastDate' = results[ri].date
  /\ UNCHANGED <<apivars, gvars>>

(* ------------------------ sa360-custom-keywords ------------------------ *)

\* The items generate_custom_column_rows yields for the rows of a query: row by
\* row, one item per custom column.
RECURSIVE Items(_, _, _)
Items(customer_id, rows, k) ==
  IF rows = <<>> THEN <<>>
  ELSE [c \in 1..k |-> [customer_id |-> customer_id, date |-> Head(rows).date,
                        campaign_id |-> Head(rows).campaign, column |-> c]]
       \o Items(customer_id, Tail(rows), k)

\* Stands for the 50000 of "idx % 50000 == 0 and idx != 0".
CheckpointEvery == 2

\* lambda z: z not in submanager_accounts  (a comparison of strings)
NotSubmanager(z) == \A i \in DOMAIN submanager_accounts : submanager_accounts[i] # z

\* The top of the sub-manager loop: the skip test, no checkpoint.
KeywordsSubmanager ==
  /\ connector = "keywords"
  /\ pc = "sub"
  /\ IF int(account) < int(submanager_cursor)
       THEN SkipSubmanager
       ELSE pc' = "fetch" /\ si' = si
  /\ lastEvent' = "sub"
  /\ UNCHANGED <<loaded, submanager_accounts, submanager_cursor, managed_account_cursor,
                 column_data_cursor, iterative_sync_cursor, managed_accounts, mi,
                 results, ri, frontier, emitted, window, runEnd, state, today>>
  /\ visited' = visited \cup {[sub |-> account, man |-> NoId]}
  /\ UNCHANGED <<apivars, gvars>>
  /\ UNCHANGED lastDate

\* get_custom_columns, get_customer_clients filtered of the sub-managers, the
\* sort and the managed-account cursor.  [None] (an empty client list) fails in
\* the sort key and an empty filtered list fails in managed_accounts[0]: see
\* FetchFails.
KeywordsFetch ==
  /\ connector = "keywords"
  /\ pc = "fetch"
  /\ clients[account] # <<>>
  /\ LET filtered == SelectSeq(clients[account], NotSubmanager)
     IN /\ filtered # <<>>
        /\ managed_accounts' = SortByInt(filtered)
        /\ managed_account_cursor' = LoadManagedCursor(loaded, SortByInt(filtered))
  /\ mi' = 1
  /\ pc' = "man"
  /\ lastEvent' = "fetch"
  /\ UNCHANGED <<loaded, submanager_accounts, submanager_cursor, column_data_cursor,
                 iterative_sync_cursor, si, results, ri, frontier, emitted, window,
                 runEnd, state, today>>
  /\ UNCHANGED <<visited, lastDate>>
  /\ UNCHANGED <<apivars, gvars>>

\* The top of the managed-account loop: the skip test, then "if len(columns) > 0".
KeywordsManaged ==
  /\ connector = "keywords"
  /\ pc = "man"
  /\ IF int(a) < int(managed_account_cursor) \/ numColumns[account] = 0
       THEN LeaveAccount
       ELSE /\ pc' = "query"
            /\ UNCHANGED <<si, managed_accounts, mi, results, ri, frontier>>
  /\ lastEvent' = "man"
  /\ UNCHANGED <<loaded, submanager_accounts, submanager_cursor, managed_account_cursor,
                 column_data_cursor, iterative_sync_cursor, emitted, window, runEnd,
                 state, today>>
  /\ visited' = visited \cup {[sub |-> account, man |-> a]}
  /\ UNCHANGED <<apivars, gvars>>
  /\ UNCHANGED lastDate

\* start_date and enumerate(generate_custom_column_rows(...)).
KeywordsQuery ==
  /\ connector = "keywords"
  /\ pc = "query"
  /\ LET items == Items(a, QueryRows(a, StartDate(column_data_cursor,
                                                   iterative_sync_cursor)),
                        numColumns[account])
     IN IF items = <<>>
          THEN LeaveAccount
          ELSE /\ results' = items
               /\ ri' = 1
               /\ pc' = "item"
               /\ UNCHANGED <<si, managed_accounts, mi, frontier>>
  /\ lastEvent' = "query"
  /\ UNCHANGED <<loaded, submanager_accounts, submanager_cursor, managed_account_cursor,
                 column_data_cursor, iterative_sync_cursor, emitted, window, runEnd,
                 state, today>>
  /\ UNCHANGED visited
  /\ lastDate' = NoDate
  /\ UNCHANGED <<apivars, gvars>>

\* "if idx % 50000 == 0 and idx != 0": idx is ri - 1.
CheckpointDue(idx) == idx % CheckpointEvery = 0 /\ idx # 0

\* One item of the enumeration: the periodic checkpoint, when it is due.
KeywordsItem ==
  /\ connector = "keywords"
  /\ pc = "item"
  /\ IF CheckpointDue(ri - 1)
       THEN /\ state' = Checkpoint(account, a, iterative_sync_cursor, results[ri].date)
            /\ lastEvent' = "checkpoint"
       ELSE /\ UNCHANGED state
            /\ lastEvent' = "pass"
  /\ pc' = "emit"
  /\ UNCHANGED <<loaded, submanager_accounts, submanager_cursor, managed_account_cursor,
                 column_data_cursor, iterative_sync_cursor, si, managed_accounts, mi,
                 results, ri, frontier, emitted, window, runEnd, today>>
  /\ UNCHANGED <<visited, lastDate>>
  /\ UNCHANGED <<apivars, gvars>>

\* yield op.upsert(table="custom_column_metrics", data=item)
KeywordsEmit ==
  /\ connector = "keywords"
  /\ pc = "emit"
  /\ emitted' = emitted \cup {results[ri]}
  /\ lastEvent' = "upsert"
  /\ IF ri < Len(results)
       THEN /\ ri' = ri + 1
            /\ pc' = "item"
            /\ UNCHANGED <<si, managed_accounts, mi, results, frontier>>
       ELSE LeaveAccount
  /\ UNCHANGED <<loaded, submanager_accounts, submanager_cursor, managed_account_cursor,
                 column_data_cursor, iterative_sync_cursor, window, runEnd, state, today>>
  /\ UNCHANGED visited
  /\ lastDate' = results[ri].date
  /\ UNCHANGED <<apivars, gvars>>

(* ------------------------------ both ----------------------------------- *)

\* After both loops: the terminal checkpoint, and the generator returns.
Final ==
  /\ pc = "final"
  /\ state' = TerminalCheckpoint
  /\ lastEvent' = "terminal"
  /\ runEnd' = "completed"
  /\ pc' = "idle"
  /\ IdleLocals
  /\ UNCHANGED <<emitted, window, today>>
  /\ UNCHANGED <<apivars, gvars>>

\* Where update() is inside a gateway call: the two fetches of a sub-manager, the
\* metric query and, in the keywords connector, the page requests made while the
\* items are enumerated.
GatewayCallSites ==
  {"fetch", "query"} \cup (IF connector = "keywords" THEN {"item"} ELSE {})

\* The managed accounts update() iterates for a sub-manager.
ManagedOf(sub) ==
  IF connector = "keywords" THEN SelectSeq(clients[sub], NotSubmanager) ELSE clients[sub]

\* The sub-manager has no managed account to iterate.  get_customer_clients
\* returns [None] for an empty list and the sort key int(None) raises TypeError;
\* in the keywords connector a list that the filter empties makes
\* managed_accounts[0] raise IndexError.  The exception leaves update().
FetchFails ==
  /\ pc = "fetch"
  /\ ManagedOf(account) = <<>>
  /\ pc' = "idle"
  /\ runEnd' = "aborted"
  /\ lastEvent' = "exception"
  /\ IdleLocals
  /\ UNCHANGED <<emitted, window, state, today>>
  /\ UNCHANGED <<apivars, gvars>>

\* A gateway call of the run raises (an unrecoverable HTTP error): the exception
\* leaves update() and the run is over.
GatewayError ==
  /\ pc \in GatewayCallSites
  /\ pc' = "idle"
  /\ runEnd' = "aborted"
  /\ lastEvent' = "error"
  /\ IdleLocals
  /\ UNCHANGED <<emitted, window, state, today>>
  /\ UNCHANGED <<apivars, gvars>>

\* The process is killed between two events of a run.
Kill ==
  /\ pc # "idle"
  /\ pc' = "idle"
  /\ runEnd' = "killed"
  /\ lastEvent' = "kill"
  /\ IdleLocals
  /\ UNCHANGED <<emitted, window, state, today>>
  /\ UNCHANGED <<apivars, gvars>>

\* Days pass while no run is in progress: the next run happens on the last day
\* of the calendar.
DayPasses ==
  /\ pc = "idle"
  /\ today < MaxDay
  /\ today' = MaxDay
  /\ UNCHANGED <<state, pc, loaded, submanager_accounts, submanager_cursor,
                 managed_account_cursor, column_data_cursor, iterative_sync_cursor, si,
                 managed_accounts, mi, results, ri, frontier, emitted, window,
                 visited, lastEvent, lastDate, runEnd>>
  /\ UNCHANGED <<apivars, gvars>>

(***************************************************************************)
(* Part 3. One metric query: the page-token loop of get_custom_column_data *)
(* and the rows generate_custom_column_rows makes of each page.            *)
(*                                                                         *)
(* A page is [results, customColumnHeaders]; a result row is               *)
(* [date, customColumns]; a custom-column value is a dict that holds a     *)
(* doubleValue or does not; a page token is a non-empty string, modelled   *)
(* as a one-element sequence, and the absent token (None) as the empty one.*)
(***************************************************************************)
NoToken == <<>>

\* The value of a dict key that is absent: None.
Null == "null"

\* "if next_page_token:" / "if not next_page_token:"
Truthy(token) == token # NoToken

\* The token the server hands out for its i-th page.
TokenOf(i) == <<i>>

\* The body the server answers a request with: the first page when the payload
\* has no pageToken, else the page the token names; nextPageToken is there when
\* a page follows.
ServerJson(token) ==
  LET i == IF token = NoToken THEN 1 ELSE token[1]
  IN [results |-> serverPages[i].results,
      customColumnHeaders |-> serverPages[i].customColumnHeaders,
      nextPageToken |-> IF i < Len(serverPages) THEN TokenOf(i + 1) ELSE NoToken]

\* The loop stops after the first page.
MutNextPageToken(json_data) == NoToken

\* next_page_token = json_data.get("nextPageToken")
NextPageToken(json_data) == json_data.nextPageToken

\* col_val.get("doubleValue", None)
DoubleValue(col_val) ==
  IF "doubleValue" \in DOMAIN col_val THEN col_val.doubleValue ELSE Null

Min(m, n) == IF m <= n THEN m ELSE n

\* Every value zipped to the first header.
MutRecordItems(record, column_headers) ==
  [j \in 1..Min(Len(record.customColumns), Len(column_headers)) |->
     [column_id |-> column_headers[1].id,
      value |-> DoubleValue(record.customColumns[j]),
      date |-> record.date]]

\* for col_val, col_header in zip(custom_cols, column_headers): yield data.
\* zip stops at the shorter of the two.
RecordItems(record, column_headers) ==
  [j \in 1..Min(Len(record.customColumns), Len(column_headers)) |->
     [column_id |-> column_headers[j].id,
      value |-> DoubleValue(record.customColumns[j]),
      date |-> record.date]]

\* for record in results: ... (the dicts of one page, in order)
RECURSIVE ResultItems(_, _)
ResultItems(rs, column_headers) ==
  IF rs = <<>> THEN <<>>
  ELSE RecordItems(Head(rs), column_headers) \o ResultItems(Tail(rs), column_headers)

\* results = page.get("results", []); column_headers = page.get("customColumnHeaders", [])
PageItems(page) == ResultItems(page.results, page.customColumnHeaders)

PIdle ==
  /\ serverPages = <<>>
  /\ ppc = "idle"
  /\ next_page_token = NoToken
  /\ sentTokens = <<>>
  /\ yielded = <<>>
  /\ pageItems = <<>>

\* generate_custom_column_rows is called and enters get_custom_column_data:
\* page = 0, next_page_token = None.
GenerateCustomColumnRows ==
  /\ ppc = "idle"
  /\ serverPages # <<>>
  /\ next_page_token' = NoToken
  /\ ppc' = "request"
  /\ UNCHANGED <<serverPages, sentTokens, yielded, pageItems>>
  /\ UNCHANGED <<gvars, drvars>>

\* One turn of "while True" up to the yield: the pageToken is put in the payload
\* or popped from it, the request is made and the body is yielded.
PageRequest ==
  /\ ppc = "request"
  /\ LET pageToken == IF Truthy(next_page_token) THEN next_page_token ELSE NoToken
     IN /\ sentTokens' = Append(sentTokens, pageToken)
        /\ yielded' = Append(yielded, ServerJson(pageToken))
  /\ ppc' = "page"
  /\ UNCHANGED <<serverPages, next_page_token, pageItems>>
  /\ UNCHANGED <<gvars, drvars>>

\* The request of a page fails (make_sa360_request or raise_for_status raises):
\* the exception leaves both generators.
PageError ==
  /\ ppc = "request"
  /\ ppc' = "failed"
  /\ UNCHANGED <<serverPages, next_page_token, sentTokens, yielded, pageItems>>
  /\ UNCHANGED <<gvars, drvars>>

\* generate_custom_column_rows yields the dicts of the page, then
\* get_custom_column_data resumes after its yield: the next token is read and
\* the loop breaks when there is none.
NormalizePage ==
  /\ ppc = "page"
  /\ pageItems' = Append(pageItems, PageItems(yielded[Len(yielded)]))
  /\ next_page_token' = NextPageToken(yielded[Len(yielded)])
  /\ ppc' = IF ~Truthy(NextPageToken(yielded[Len(yielded)])) THEN "done" ELSE "request"
  /\ UNCHANGED <<serverPages, sentTokens, yielded>>
  /\ UNCHANGED <<gvars, drvars>>

PNext ==
  \/ GenerateCustomColumnRows
  \/ PageRequest
  \/ PageError
  \/ NormalizePage

(***************************************************************************)
(* Part 4. Initial states and specifications.                              *)
(***************************************************************************)

\* submanager_accounts = ["1115771062", "9134099894"]: one digit stands for each
\* ten-digit id, in the same numeric order.
SubA == <<1>>
SubB == <<9>>
ColumnsConfig == <<SubA, SubB>>

\* The managed accounts of the modelled API.
ManagedIds == {<<3>>, <<5>>}

\* The sub-manager id strings a keywords configuration is made of: "2", "10", "02".
SubIds == {<<2>>, <<1, 0>>, <<0, 2>>}

\* Entries of a configured sub-manager list, of a customer_client list, rows of
\* one account, custom columns of one sub-manager.
MaxSubs == 2
MaxClients == 2
MaxRows == 2
MaxColumns == 1

\* The dates that carry metric rows.
RowDates == {0, MaxDay}

SeqsUpTo(S, n) == UNION {[1..k -> S] : k \in 0..n}

Injective(f) == \A i, j \in DOMAIN f : f[i] = f[j] => i = j

\* What get_customer_clients may return for a sub-manager: its descendants and,
\* as the customer_client resource does, the sub-manager itself, in any order.
ClientLists(sub) == {l \in SeqsUpTo(ManagedIds \cup {sub}, MaxClients) : Injective(l)}

RowSeqs ==
  {l \in SeqsUpTo([date : RowDates, campaign : {1}], MaxRows) : Injective(l)}

Configs == {l \in SeqsUpTo(SubIds, MaxSubs) : l # <<>>}

Row(d) == [date |-> d, campaign |-> 1]

\* The rows every account holds where the rows are not what varies.
FixedRows == <<Row(0), Row(MaxDay)>>

\* The client lists where the tree is not what varies: out of order.
FixedClients == <<<<5>>, <<3>>>>

\* A sub-manager account holds no keyword rows of its own.
RowsOf(managed, subs) == [id \in DOMAIN managed \cup subs |->
                            IF id \in DOMAIN managed THEN managed[id] ELSE <<>>]

\* A state an earlier configuration, one that held sub-manager "5", left behind.
LegacyState == Checkpoint(<<5>>, <<3>>, NoDate, 0)

DInitRun ==
  /\ today = 0
  /\ pc = "idle"
  /\ loaded = EmptyState
  /\ submanager_accounts = <<>>
  /\ submanager_cursor = NoId
  /\ managed_account_cursor = NoId
  /\ column_data_cursor = NoDate
  /\ iterative_sync_cursor = NoDate
  /\ si = 0
  /\ managed_accounts = <<>>
  /\ mi = 0
  /\ results = <<>>
  /\ ri = 0
  /\ frontier = NoDate
  /\ visited = {}
  /\ emitted = {}
  /\ window = [lo |-> NoDate, hi |-> 0]
  /\ lastEvent = "none"
  /\ lastDate = NoDate
  /\ runEnd = "none"

\* The rows of an account that holds one more than MaxRows, each of its own
\* campaign, with any dates in any order of delivery.
LongRowSeqs ==
  {[i \in 1..MaxRows + 1 |-> [date |-> d[i], campaign |-> i]] :
     d \in [1..MaxRows + 1 -> {0, 1, MaxDay}]}

\* The API of a run: any account tree over accounts that all hold the same
\* rows, or any rows under one tree, or one account with a longer list of rows.
ApiInit(subs) ==
  \/ /\ clients \in [subs -> UNION {ClientLists(sub) : sub \in subs}]
     /\ \A sub \in subs : clients[sub] \in ClientLists(sub)
     /\ numColumns \in [subs -> 0..MaxColumns]
     /\ apiRows = RowsOf([id \in ManagedIds |-> FixedRows], subs)
  \/ /\ clients = [sub \in subs |-> FixedClients]
     /\ numColumns = [sub \in subs |-> MaxColumns]
     /\ \E managed \in [ManagedIds -> RowSeqs] : apiRows = RowsOf(managed, subs)
  \/ /\ clients = [sub \in subs |-> FixedClients]
     /\ numColumns = [sub \in subs |-> MaxColumns]
     /\ \E l \in LongRowSeqs :
          apiRows = RowsOf([id \in ManagedIds |-> IF id = <<3>> THEN l ELSE <<>>], subs)

InitColumns ==
  /\ GInit
  /\ connector = "columns"
  /\ config = ColumnsConfig
  /\ ApiInit(Range(ColumnsConfig))
  /\ state = EmptyState
  /\ DInitRun
  /\ PIdle

\* submanager_account_ids: any configured list over one fixed API, or the list
\* "10,2" over any API.
InitKeywords ==
  /\ GInit
  /\ connector = "keywords"
  /\ \/ /\ config \in Configs
        /\ clients = [sub \in Range(config) |-> FixedClients]
        /\ numColumns = [sub \in Range(config) |-> MaxColumns]
        /\ apiRows = RowsOf([id \in ManagedIds |-> FixedRows], Range(config))
        /\ state \in {EmptyState, LegacyState}
     \/ /\ config = <<<<1, 0>>, <<2>>>>
        /\ ApiInit(Range(config))
        /\ state = EmptyState
  /\ DInitRun
  /\ PIdle

InitGateway ==
  /\ GInit
  /\ state = EmptyState
  /\ connector = "none"
  /\ config = <<>>
  /\ clients = <<>>
  /\ numColumns = <<>>
  /\ apiRows = <<>>
  /\ DInitRun
  /\ PIdle

ColumnsNext ==
  \/ Start
  \/ ColumnsSubmanager
  \/ ColumnsFetch
  \/ ColumnsManaged
  \/ ColumnsUpsertColumns
  \/ ColumnsQuery
  \/ ColumnsRow
  \/ ColumnsEmit
  \/ Final
  \/ FetchFails
  \/ GatewayError
  \/ Kill
  \/ DayPasses

KeywordsNext ==
  \/ Start
  \/ KeywordsSubmanager
  \/ KeywordsFetch
  \/ KeywordsManaged
  \/ KeywordsQuery
  \/ KeywordsItem
  \/ KeywordsEmit
  \/ Final
  \/ FetchFails
  \/ GatewayError
  \/ Kill
  \/ DayPasses

SpecGateway == InitGateway /\ [][GNext]_vars

\* make_sa360_request runs on: a request that was sent is answered, and the
\* code after the answer is executed.
SpecGatewayLive ==
  /\ InitGateway
  /\ [][GNext]_vars
  /\ WF_vars(SessionRequest)
  /\ WF_vars(RefreshToken)
  /\ WF_vars(Backoff)
  /\ WF_vars(ReturnResponse)

SpecColumns == InitColumns /\ [][ColumnsNext]_vars

SpecKeywords == InitKeywords /\ [][KeywordsNext]_vars

\* Both connectors.
Init == InitColumns \/ InitKeywords

Next ==
  \/ Start
  \/ ColumnsSubmanager
  \/ ColumnsFetch
  \/ ColumnsManaged
  \/ ColumnsUpsertColumns
  \/ ColumnsQuery
  \/ ColumnsRow
  \/ ColumnsEmit
  \/ KeywordsSubmanager
  \/ KeywordsFetch
  \/ KeywordsManaged
  \/ KeywordsQuery
  \/ KeywordsItem
  \/ KeywordsEmit
  \/ Final
  \/ FetchFails
  \/ GatewayError
  \/ Kill
  \/ DayPasses

Spec == Init /\ [][Next]_vars

\* Pages of one result set, rows of one page, custom-column values of one row,
\* headers of one page.
MaxPages == 3
MaxPageRows == 2
MaxValues == 2
MaxHeaders == 3

ColValues == {[doubleValue |-> "1.5"], [stringValue |-> "x"]}

Headers == [j \in 1..MaxHeaders |-> [id |-> <<j>>]]

Records == [date : {0, 1}, customColumns : SeqsUpTo(ColValues, MaxValues)]

\* Any page: rows with any number of values under any number of headers.
AnyPages ==
  [results : SeqsUpTo(Records, MaxPageRows),
   customColumnHeaders : {SubSeq(Headers, 1, h) : h \in 0..MaxHeaders}]

\* The pages of a result set that is cut in several: one row each, or none.
PlainPages ==
  [results : SeqsUpTo([date : {0, 1}, customColumns : {<<[doubleValue |-> "1.5"]>>}], 1),
   customColumnHeaders : {SubSeq(Headers, 1, 1)}]

\* One page of any shape, or up to MaxPages plain pages.
InitPages ==
  /\ GInit
  /\ connector = "none"
  /\ config = <<>>
  /\ clients = <<>>
  /\ numColumns = <<>>
  /\ apiRows = <<>>
  /\ state = EmptyState
  /\ DInitRun
  /\ \/ \E p \in AnyPages : serverPages = <<p>>
     \/ serverPages \in {l \in SeqsUpTo(PlainPages, MaxPages) : l # <<>>}
  /\ ppc = "idle"
  /\ next_page_token = NoToken
  /\ sentTokens = <<>>
  /\ yielded = <<>>
  /\ pageItems = <<>>

SpecPages == InitPages /\ [][PNext]_vars

(***************************************************************************)
(* Claims about the gateway (checked under SpecGateway).                   *)
(***************************************************************************)
CallEnded == gpc \in {"caller", "done"}

RECURSIVE Count(_, _)
Count(seq, x) ==
  IF seq = <<>> THEN 0
  ELSE (IF Head(seq) = x THEN 1 ELSE 0) + Count(Tail(seq), x)

\* C7: one call of make_sa360_request refreshes the bearer token at most once,
\* whatever statuses arrive (401s interleaved with 429s included); a 401 answered
\* by a 200 after the refresh gives exactly one refresh, an updated Authorization
\* header and the 200 response as the result.
C7_RefreshAtMostOnce ==
  /\ refreshes <= 1
  /\ (statuses = <<401, 200>> /\ CallEnded) =>
       /\ refreshes = 1
       /\ authorization = authAtCall + 1
       /\ outcome = "returned"
       /\ response.status = 200

C7_Witness == statuses = <<401, 200>> /\ CallEnded /\ outcome = "returned"

\* C8: a second 401 within one call is fatal: the call ends with an error raised
\* to the caller, never by returning the response.
C8_Second401Fatal ==
  (CallEnded /\ Count(statuses, 401) >= 2) => outcome # "returned"

\* C9: the k-th backoff sleep of a call lasts 2^(k-1) seconds, a call sleeps at
\* most 5 times, and 429, 429, 429, 200 completes after sleeps of 1, 2, 4.
C9_ExponentialBackoff ==
  /\ Len(sleeps) <= 5
  /\ \A k \in 1..Len(sleeps) : sleeps[k] = 2 ^ (k - 1)
  /\ (statuses = <<429, 429, 429, 200>> /\ CallEnded) =>
       (sleeps = <<1, 2, 4>> /\ outcome = "returned")

C9_Witness == statuses = <<429, 429, 429, 200>> /\ CallEnded /\ sleeps = <<1, 2, 4>>

\* C10: when the 429 retry budget of a call is exhausted, an error reaches the
\* caller's caller: no gateway caller goes on with the 429 body as data.
C10_ExhaustedRaises ==
  (gpc = "done" /\ response.status = 429 /\ rate_limit_retries = 0) =>
     (outcome # "returned" \/ callerOutcome = "HTTPError")

\* C11: a call whose last response has a non-2xx status that is neither a first
\* 401 nor a retryable 429 ends with an HTTP error raised to the caller: the
\* response is not returned (and no further request is made for it).
C11_OtherErrorsRaise ==
  (CallEnded /\ statuses # <<>> /\ RaisesForStatus(response)) => outcome # "returned"

(***************************************************************************)
(* Claims about one metric query (checked under SpecPages).                *)
(***************************************************************************)

\* C12: the page-token loop of get_custom_column_data sends its first request
\* without a pageToken and every later one with the token of the response just
\* before it, yields the pages of the result set in order, none twice and none
\* left out, goes on while the last response carries a nextPageToken and ends
\* when a response carries none, having yielded the full result set.
C12_PageLoop ==
  /\ \A k \in DOMAIN sentTokens :
       sentTokens[k] = IF k = 1 THEN NoToken ELSE yielded[k - 1].nextPageToken
  /\ Len(yielded) <= Len(serverPages)
  /\ \A k \in DOMAIN yielded : yielded[k].results = serverPages[k].results
  /\ ppc = "done" =>
       /\ yielded[Len(yielded)].nextPageToken = NoToken
       /\ Len(yielded) = Len(serverPages)
  /\ (ppc = "request" /\ yielded # <<>>) =>
       yielded[Len(yielded)].nextPageToken # NoToken

C12_Witness == ppc = "done" /\ Len(yielded) >= 3 /\ Len(sentTokens) = Len(yielded)

\* C13: a page of N result rows that carry K custom-column values each, under
\* headers that have a j-th entry for each of them, is turned into exactly N*K
\* metric rows, row by row and column by column: the j-th of the i-th row has
\* the id of the j-th header and the doubleValue of the row's j-th value, null
\* when the value has none.
C13_NTimesK ==
  \A p \in DOMAIN pageItems :
    LET page == yielded[p]
        N == Len(page.results)
    IN \A K \in 0..MaxValues :
         (/\ \A i \in 1..N : Len(page.results[i].customColumns) = K
          /\ Len(page.customColumnHeaders) >= K)
         => /\ Len(pageItems[p]) = N * K
            /\ \A i \in 1..N, j \in 1..K :
                 LET item == pageItems[p][(i - 1) * K + j]
                     col == page.results[i].customColumns[j]
                 IN /\ item.column_id = page.customColumnHeaders[j].id
                    /\ item.date = page.results[i].date
                    /\ item.value = IF "doubleValue" \in DOMAIN col
                                      THEN col.doubleValue ELSE Null

C13_Witness ==
  \E p \in DOMAIN pageItems :
    /\ Len(yielded[p].results) = 2
    /\ \A i \in 1..2 : Len(yielded[p].results[i].customColumns) = 2
    /\ Len(yielded[p].customColumnHeaders) = 2
    /\ yielded[p].results[1].date # yielded[p].results[2].date
    /\ Len(pageItems[p]) = 4
    /\ pageItems[p][4].value = Null
    /\ pageItems[p][3].value # Null

\* C14: a page holding a result row whose customColumns and the page's
\* customColumnHeaders differ in length is never turned into metric rows: the
\* normalization fails instead.
C14_MismatchFails ==
  \A p \in DOMAIN pageItems : \A i \in DOMAIN yielded[p].results :
     Len(yielded[p].results[i].customColumns) = Len(yielded[p].customColumnHeaders)

(***************************************************************************)
(* Claims about the sync drivers.                                          *)
(***************************************************************************)
Running == pc # "idle"

\* The API delivers every account's rows in date order, as the query asks.
DeliveredInDateOrder ==
  \A id \in DOMAIN apiRows : \A i, j \in DOMAIN apiRows[id] :
     i < j => apiRows[id][i].date <= apiRows[id][j].date

\* The metric records the API holds within the window of the traversal.
HeldRows(m) ==
  {apiRows[m][i] : i \in {k \in DOMAIN apiRows[m] :
       /\ apiRows[m][k].date <= window.hi
       /\ apiRows[m][k].date >= (IF window.lo = NoDate THEN DefaultStart ELSE window.lo)}}

Held ==
  UNION {UNION {UNION {RowRecords(m, r, numColumns[sub]) : r \in HeldRows(m)} :
                  m \in Range(ManagedOf(sub))} :
           sub \in Range(config)}

\* C1: at-least-once delivery across interruption and resume: when a run writes
\* the terminal checkpoint, every metric row the API holds within the window,
\* for every managed account of every configured sub-manager, has been upserted
\* in one of the runs of the traversal (here even granted that the API delivers
\* the rows in date order).
C1_AtLeastOnce ==
  (lastEvent = "terminal" /\ DeliveredInDateOrder) => Held \subseteq emitted

\* C2: a run resumed with submanager_cursor = X enters only sub-managers whose
\* numeric id is >= X, and no checkpoint is written for a skipped sub-manager
\* nor for a managed account below managed_account_cursor.
C2_NoCheckpointForSkipped ==
  Running =>
    /\ pc \in {"fetch", "man", "columns", "query", "row", "emit"} =>
         int(account) >= int(submanager_cursor)
    /\ lastEvent = "checkpoint" =>
         /\ int(state.submanager_cursor) >= int(submanager_cursor)
         /\ (state.managed_account_cursor # NoId /\ managed_account_cursor # NoId) =>
              int(state.managed_account_cursor) >= int(managed_account_cursor)

\* The position a state names, in traversal order.
Position(st) ==
  <<int(st.submanager_cursor), int(st.managed_account_cursor), st.column_data_cursor>>

LexLeq(p, q) ==
  \/ p[1] < q[1]
  \/ p[1] = q[1] /\ p[2] < q[2]
  \/ p[1] = q[1] /\ p[2] = q[2] /\ p[3] <= q[3]

\* C3: within one run, the position (submanager_cursor, managed_account_cursor,
\* column_data_cursor) written by a non-terminal checkpoint is never before the
\* position of the state the run was started with nor before that of an earlier
\* checkpoint of the run.
C3_CursorMonotone ==
  [][(Running /\ lastEvent' = "checkpoint") => LexLeq(Position(state), Position(state'))]_vars

\* C4: after a restart from a checkpoint whose column_data_cursor is the
\* frontier F of a managed account, no metric row of that account dated before F
\* is emitted again, iterative_sync_cursor set or not.
C4_NoReemitBelowFrontier ==
  (/\ pc = "emit"
   /\ loaded.column_data_cursor # NoDate
   /\ loaded.submanager_cursor = account
   /\ loaded.managed_account_cursor = a
   /\ RowRecords(a, results[ri], numColumns[account]) \subseteq emitted)
  => results[ri].date >= loaded.column_data_cursor

NumericallyDistinct(ids) == \A i, j \in DOMAIN ids : int(ids[i]) = int(ids[j]) => i = j

SamePermutation(p, q) ==
  Len(p) = Len(q) /\ \A x \in Range(p) \cup Range(q) : Count(p, x) = Count(q, x)

\* C5, as claimed: the sub-managers are visited in strictly increasing numeric
\* order for every configured list.
C5_StrictlyIncreasing ==
  Running =>
    \A i, j \in DOMAIN submanager_accounts :
       i < j => int(submanager_accounts[i]) < int(submanager_accounts[j])

\* C5, amended: update() visits the configured sub-managers, each once, in
\* non-decreasing numeric order (ids compared as integers, whatever the order
\* and zero-padding of the input), strictly increasing when no two configured
\* ids have the same numeric value; ["10","2"] is visited as 2 then 10, and with
\* resume cursor "5" sub-manager 2 is skipped and 10 is processed.
C5_NumericOrder ==
  Running =>
    /\ SamePermutation(submanager_accounts, config)
    /\ si \in DOMAIN submanager_accounts
    /\ \A i, j \in DOMAIN submanager_accounts :
         i < j => int(submanager_accounts[i]) <= int(submanager_accounts[j])
    /\ NumericallyDistinct(config) =>
         \A i, j \in DOMAIN submanager_accounts :
            i < j => int(submanager_accounts[i]) < int(submanager_accounts[j])
    /\ config = <<<<1, 0>>, <<2>>>> => submanager_accounts = <<<<2>>, <<1, 0>>>>
    /\ (config = <<<<1, 0>>, <<2>>>> /\ submanager_cursor = <<5>>) =>
         (pc \in {"fetch", "man", "query", "item", "emit"} =>
            (account = <<1, 0>> /\ [sub |-> <<2>>, man |-> NoId] \in visited))

C5_Witness ==
  /\ config = <<<<1, 0>>, <<2>>>>
  /\ submanager_cursor = <<5>>
  /\ pc = "man"
  /\ account = <<1, 0>>

\* The loops have passed every configured sub-manager and, for each one that
\* was not skipped, every managed account.
AllTraversed ==
  \A sub \in Range(config) :
    /\ [sub |-> sub, man |-> NoId] \in visited
    /\ int(sub) >= int(submanager_cursor) =>
         \A m \in Range(ManagedOf(sub)) : [sub |-> sub, man |-> m] \in visited

\* C6: the terminal checkpoint iterative_sync_cursor = today is written only
\* after every configured sub-manager and all its managed accounts have been
\* traversed, it is the last event of the run, and a run that aborts on a
\* gateway error writes nothing: the state stays at the last checkpoint.
C6_TerminalCheckpointLast ==
  [][/\ (Running /\ lastEvent' = "terminal") =>
          /\ pc = "final"
          /\ AllTraversed
          /\ state' = TerminalCheckpoint
          /\ pc' = "idle"
          /\ runEnd' = "completed"
     /\ (Running /\ lastEvent' # "terminal") =>
          (state' = state \/ state'.submanager_cursor # NoId)
     /\ (Running /\ runEnd' = "aborted") => (state' = state /\ pc' = "idle")
    ]_vars

C6_Witness ==
  /\ lastEvent = "terminal"
  /\ runEnd = "completed"
  /\ state = TerminalCheckpoint
  /\ emitted # {}

\* C15: checkpoint before work: while update() is past the top of the loop for
\* a sub-manager it has entered (any gateway call or record for it), the last
\* written checkpoint names that sub-manager, and while it queries or emits for
\* a managed account it has entered, the last written checkpoint names that
\* sub-manager and that managed account.
C15_CheckpointBeforeWork ==
  /\ pc \in {"fetch", "man", "columns", "query", "row", "item", "emit"} =>
       state.submanager_cursor = account
  /\ pc \in {"columns", "query", "row", "item", "emit"} =>
       /\ state.submanager_cursor = account
       /\ state.managed_account_cursor = a

\* C16: the date-frontier rule of the columns connector, row by row: the first
\* row of an account makes its date the frontier and is checkpointed as
\* column_data_cursor before it is emitted; a row dated before the frontier is
\* dropped; a row dated more than 5 days after the frontier makes its date the
\* frontier and is checkpointed before it is emitted; a row 0 to 5 days after
\* the frontier is emitted with no checkpoint and no change of the frontier.
C16_FrontierRule ==
  [][/\ (connector = "columns" /\ pc = "row" /\ lastEvent' # "kill") =>
          LET date == results[ri].date
              cp == Checkpoint(account, a, iterative_sync_cursor, date)
          IN /\ frontier = NoDate =>
                  /\ frontier' = date /\ state' = cp /\ lastEvent' = "checkpoint"
                  /\ pc' = "emit" /\ ri' = ri /\ emitted' = emitted
             /\ (frontier # NoDate /\ date < frontier) =>
                  /\ state' = state /\ emitted' = emitted /\ pc' # "emit"
                  /\ pc' = "row" => (ri' = ri + 1 /\ frontier' = frontier)
             /\ (frontier # NoDate /\ date > frontier + 5) =>
                  /\ frontier' = date /\ state' = cp /\ lastEvent' = "checkpoint"
                  /\ pc' = "emit" /\ ri' = ri /\ emitted' = emitted
             /\ (frontier # NoDate /\ date >= frontier /\ date <= frontier + 5) =>
                  /\ frontier' = frontier /\ state' = state
                  /\ pc' = "emit" /\ ri' = ri /\ emitted' = emitted
     /\ (connector = "columns" /\ pc = "emit" /\ lastEvent' = "upsert") =>
          /\ RowRecords(a, results[ri], numColumns[account]) \subseteq emitted'
          /\ state' = state
    ]_vars

C16_Witness ==
  /\ connector = "columns"
  /\ pc = "emit"
  /\ lastEvent = "pass"
  /\ results[ri].date = frontier + 5
  /\ state.column_data_cursor = frontier

\* C17: bounded reprocessing window: whenever a metric row is about to be
\* emitted for a managed account, the last written checkpoint is one of that
\* account and its column_data_cursor is no later than the row's date and no
\* more than 5 days before it.
C17_BoundedWindow ==
  pc = "emit" =>
    /\ state.submanager_cursor = account
    /\ state.managed_account_cursor = a
    /\ state.column_data_cursor # NoDate
    /\ results[ri].date >= state.column_data_cursor
    /\ results[ri].date <= state.column_data_cursor + 5

\* C18: within one managed account in one run the dates of the emitted metric
\* rows never decrease, in whatever order the API delivers the rows.
C18_NonDecreasingDates ==
  (connector = "columns" /\ pc = "emit" /\ lastDate # NoDate) =>
     results[ri].date >= lastDate

\* The lower date bound the claim gives a query of the run.
LowerBound ==
  IF loaded.iterative_sync_cursor # NoDate THEN loaded.iterative_sync_cursor
  ELSE IF loaded.column_data_cursor # NoDate THEN loaded.column_data_cursor
  ELSE DefaultStart

RowsFrom(customer_id, lo) ==
  SelectSeq(apiRows[customer_id], LAMBDA r : r.date >= lo /\ r.date <= today)

\* C19: every metric query of a run returns the rows dated from
\* iterative_sync_cursor of the loaded state when it is set, from its
\* column_data_cursor otherwise, from 2023-01-01 when both are absent, up to
\* today; and once the state holds an iterative_sync_cursor every later state
\* holds one, so that it takes precedence in every later run.
C19_LowerBound ==
  [][/\ (Running /\ lastEvent' = "query") =>
          LET rows == RowsFrom(a, LowerBound)
          IN IF rows = <<>> THEN pc' \notin {"row", "item"}
             ELSE results' = IF connector = "columns" THEN rows
                             ELSE Items(a, rows, numColumns[account])
     /\ state.iterative_sync_cursor # NoDate => state'.iterative_sync_cursor # NoDate
     /\ Running => /\ iterative_sync_cursor = loaded.iterative_sync_cursor
                   /\ column_data_cursor = loaded.column_data_cursor
    ]_vars

C19_Witness ==
  /\ lastEvent = "query"
  /\ loaded.iterative_sync_cursor # NoDate
  /\ loaded.column_data_cursor # NoDate
  /\ loaded.iterative_sync_cursor < loaded.column_data_cursor
  /\ results # <<>>
  /\ results[1].date < loaded.column_data_cursor

\* C20: no account that is itself a configured sub-manager is processed as a
\* managed account: while update() queries the metrics of `a` or handles and
\* emits its rows, `a` is not a configured sub-manager, whatever client list the
\* API returned.
C20_NoSubmanagerAsManaged ==
  pc \in {"query", "row", "item", "emit"} =>
    \A i \in DOMAIN config : int(config[i]) # int(a)

\* C21: on first entry into a sub-manager managed_account_cursor is the smallest
\* managed-account id of that sub-manager: in a run resumed from a state whose
\* cursors were checkpointed inside sub-manager S, at the top of the
\* managed-account loop of a sub-manager numerically greater than S the account
\* at hand is not below the cursor, so that none is skipped by comparison with
\* the cursor that belonged to S.
C21_CursorOnFirstEntry ==
  (/\ pc = "man"
   /\ loaded.submanager_cursor # NoId
   /\ loaded.managed_account_cursor # NoId
   /\ int(account) > int(loaded.submanager_cursor))
  => int(a) >= int(managed_account_cursor)

\* C22: when the API returns an empty managed-account list for a sub-manager,
\* the step update() takes from there goes on to the next sub-manager, or to the
\* terminal checkpoint after the last one: the run does not abort (unless the
\* gateway call itself fails or the process is killed).
C22_EmptyListContinues ==
  [][(pc = "fetch" /\ clients[account] = <<>> /\ lastEvent' \notin {"kill", "error"})
       => /\ runEnd' = "running"
          /\ pc' \in {"sub", "final"}
          /\ state' = state
    ]_vars

\* C23: every call of make_sa360_request ends, whatever statuses the server
\* answers with, after at most 7 requests: the first one, at most one more after
\* a token refresh and at most 5 more after a 429; the 429 budget is 5 less the
\* backoffs made, whether or not a 401 retry took place.
C23_Terminates ==
  /\ [](/\ Len(statuses) <= 7
        /\ refreshes <= 1
        /\ Len(sleeps) <= 5
        /\ rate_limit_retries = 5 - Len(sleeps)
        /\ Len(statuses) <= 1 + refreshes + Len(sleeps))
  /\ (gpc \in {"request", "response"}) ~> CallEnded

C23_Witness ==
  /\ CallEnded
  /\ Len(statuses) = 7
  /\ Count(statuses, 401) >= 1
  /\ statuses[1] = 429
  /\ statuses[2] = 401

\* C24: every non-terminal checkpoint of a run carries the iterative_sync_cursor
\* the run loaded from the state at its start, and no step but the terminal
\* checkpoint changes the iterative_sync_cursor of the state: an interrupted
\* run leaves the incremental lower bound where it was.
C24_IterativeCursorFrame ==
  [][/\ (Running /\ lastEvent' = "checkpoint") =>
          /\ state'.iterative_sync_cursor = loaded.iterative_sync_cursor
          /\ state'.iterative_sync_cursor = state.iterative_sync_cursor
     /\ lastEvent' # "terminal" =>
          state'.iterative_sync_cursor = state.iterative_sync_cursor
     /\ (Running /\ lastEvent' = "terminal") => state'.iterative_sync_cursor = today
    ]_vars

C24_Witness ==
  /\ lastEvent = "checkpoint"
  /\ loaded.iterative_sync_cursor # NoDate
  /\ state.iterative_sync_cursor = loaded.iterative_sync_cursor
  /\ state.column_data_cursor # NoDate
  /\ state.column_data_cursor > state.iterative_sync_cursor
  /\ today > loaded.iterative_sync_cursor

\* The state a completed run leaves: iterative_sync_cursor and nothing else.
AfterCompletedRun(st) ==
  /\ st.iterative_sync_cursor # NoDate
  /\ st.submanager_cursor = NoId
  /\ st.managed_account_cursor = NoId
  /\ st.column_data_cursor = NoDate

\* C25: the terminal checkpoint holds iterative_sync_cursor only, and the run
\* that starts from it begins at the numerically smallest sub-manager, skips no
\* sub-manager and no managed account, and has passed every one of them when
\* it writes its own terminal checkpoint.
C25_FreshTraversalAfterTerminal ==
  [][/\ (Running /\ lastEvent' = "terminal") => AfterCompletedRun(state')
     /\ (Running /\ AfterCompletedRun(loaded)) =>
          /\ submanager_cursor = submanager_accounts[1]
          /\ \A i \in DOMAIN submanager_accounts :
               int(submanager_accounts[i]) >= int(submanager_cursor)
          /\ pc = "man" => /\ managed_account_cursor = managed_accounts[1]
                           /\ int(a) >= int(managed_account_cursor)
          /\ lastEvent' = "terminal" =>
               \A sub \in Range(config) :
                  /\ [sub |-> sub, man |-> NoId] \in visited
                  /\ \A m \in Range(ManagedOf(sub)) : [sub |-> sub, man |-> m] \in visited
    ]_vars

C25_Witness ==
  /\ pc = "final"
  /\ AfterCompletedRun(loaded)
  /\ Len(submanager_accounts) >= 2
  /\ emitted # {}

====
